---- MODULE Spec2Model ----
(***************************************************************************)
(* Model of new_aglae_data_converter/converter.py: the function convert    *)
(* (path validation, configuration resolution, dispatch to the two         *)
(* converters, summing of their counts) and the command-line entry point   *)
(* that builds the extraction types from the --extraction-types tokens.    *)
(* convert is sequential; every statement that calls a collaborator is one *)
(* step, and the collaborators' outcomes are chosen nondeterministically.  *)
(***************************************************************************)
EXTENDS Integers, Sequences, FiniteSets, TLC

\* ------------------------------------------------------------------ bounds
MaxKinds == 3      \* longest extraction_types tuple passed to convert directly
MaxTokens == 2     \* most --extraction-types tokens on a command line
MaxCount == 2      \* largest count a converter returns
MaxCalls == 2      \* calls of convert / runs of the command line in one behaviour

\* ------------------------------------------------------------ enumeration
\* The members of ExtractionType that convert tests for.
ExtractionType == {"GLOBALS", "STANDARDS", "LST"}

\* ------------------------------------------------------------- characters
\* Command-line tokens and enum member names are sequences of characters,
\* so that str.upper() is computed letter by letter.
LowerLetters == <<"a", "b", "d", "g", "l", "n", "o", "r", "s", "t">>
UpperLetters == <<"A", "B", "D", "G", "L", "N", "O", "R", "S", "T">>

\* mutant of UpperChar: the token is used as typed
KeepChar(c) == c

\* str.upper() on one character
UpperChar(c) ==
    IF \E i \in DOMAIN LowerLetters : LowerLetters[i] = c
    THEN UpperLetters[CHOOSE i \in DOMAIN LowerLetters : LowerLetters[i] = c]
    ELSE c

\* ext_type.upper()
Upper(s) == [i \in DOMAIN s |-> UpperChar(s[i])]

tok_lst == <<"l", "s", "t">>
tok_globals == <<"g", "l", "o", "b", "a", "l", "s">>
tok_standards == <<"s", "t", "a", "n", "d", "a", "r", "d", "s">>

\* choices=("lst", "globals", "standards")
Choices == {tok_lst, tok_globals, tok_standards}

\* default=["lst", "globals", "standards"]
DefaultTokens == <<tok_lst, tok_globals, tok_standards>>

\* The tokens a user may type after --extraction-types in this model.
CliTokens ==
    Choices \cup
    { <<"L", "S", "T">>, <<"G", "l", "o", "b", "a", "l", "s">>, <<"l", "s">> }

\* The name of each enum member, as ExtractionType[name] looks it up.
MemberName(m) ==
    CASE m = "LST" -> <<"L", "S", "T">>
      [] m = "GLOBALS" -> <<"G", "L", "O", "B", "A", "L", "S">>
      [] m = "STANDARDS" -> <<"S", "T", "A", "N", "D", "A", "R", "D", "S">>

\* ExtractionType[name] succeeds exactly for the members' names.
IsMemberName(name) == \E m \in ExtractionType : MemberName(m) = name
ExtractionTypeByName(name) == CHOOSE m \in ExtractionType : MemberName(m) = name

\* --------------------------------------------------------------- the paths
None == "None"
DataPaths == {"data"}
OutputPaths == {"out"}
UserConfig == "user.yml"
\* pathlib.Path(__file__).parents[1] / "config.yml"
DefaultConfig == "config.yml"
Paths == DataPaths \cup OutputPaths \cup {UserConfig, DefaultConfig}

\* ------------------------------------------------------------ collaborators
\* What a converter may raise, and what parse_config may raise.
ConverterErrors == {"OSError", "FormatError"}
ConfigurationInvalid == "ConfigurationInvalid"

NoError == [type |-> "none", detail |-> ""]

BoundedSeq(S, n) == UNION { [1..k -> S] : k \in 0..n }

\* Python's `x in tuple`
In(x, t) == \E i \in DOMAIN t : t[i] = x

VARIABLES
    pc,                  \* position in convert / the command line
    entry,               \* "api": convert called directly; "cli": through __main__
    cli,                 \* the command line: [given, tokens] of --extraction-types
    extraction_types,    \* parameter of convert (a tuple of ExtractionType)
    data_path,           \* parameter
    output_path,         \* parameter
    config_arg,          \* the config_path the caller passed (None or a path)
    config_path,         \* the local config_path, reassigned at line 37
    files,               \* the paths that exist on the filesystem
    config,              \* the Configuration object parse_config returned (0: none)
    processed_files_num, \* local
    log,                 \* the collaborator calls, returns and raises of this call
    result,              \* the value returned (meaningful when pc = "done")
    error,               \* the exception that left convert / the command line
    calls,               \* calls made so far
    nextObj              \* identity of the next object parse_config creates

vars == << pc, entry, cli, extraction_types, data_path, output_path, config_arg,
           config_path, files, config, processed_files_num, log, result, error,
           calls, nextObj >>

\* convert has returned ("done") or raised ("failed"), or the command line
\* ended before convert was called ("usage_error", "main_error").
Terminal == {"done", "failed", "usage_error", "main_error"}

Init ==
    /\ pc = "idle"
    /\ entry = "api"
    /\ cli = [given |-> FALSE, tokens |-> << >>]
    /\ extraction_types = << >>
    /\ data_path \in DataPaths
    /\ output_path \in OutputPaths
    /\ config_arg = None
    /\ config_path = None
    /\ files = {}
    /\ config = 0
    /\ processed_files_num = 0
    /\ log = << >>
    /\ result = 0
    /\ error = NoError
    /\ calls = 0
    /\ nextObj = 1

\* ------------------------------------------------- the conditions of convert
\* mutant of ResolveStrict: resolve() without strict=True never raises
ResolveLenient(p, fs) == TRUE

\* path.resolve(strict=True) succeeds iff the path exists
ResolveStrict(p, fs) == p \in fs

\* if not config_path: config_path = <default>
DefaultedConfigPath(cp) == IF cp = None THEN DefaultConfig ELSE cp

\* mutant of ConfigExists: the existence check is dropped
ConfigAssumed(p, fs) == TRUE

\* config_path.exists()
ConfigExists(p, fs) == p \in fs

\* mutant of NeedsGlobals: STANDARDS alone does not select the converter
NeedsGlobalsOnly(et) == In("GLOBALS", et)

\* ExtractionType.GLOBALS in extraction_types or ExtractionType.STANDARDS in ...
NeedsGlobals(et) == In("GLOBALS", et) \/ In("STANDARDS", et)

\* ExtractionType.LST in extraction_types
NeedsLst(et) == In("LST", et)

\* mutant of AddProcessed: `=` instead of `+=`
AssignProcessed(total, n) == n

\* processed_files_num += <count>
AddProcessed(total, n) == total + n

\* mutant of GlobalsArgs: the kinds are filtered to GLOBALS / STANDARDS
GlobalsArgsFiltered(et, dp, op, cfg) ==
    << SelectSeq(et, LAMBDA k : k \in {"GLOBALS", "STANDARDS"}), dp, op, cfg >>

\* convert_globals_to_hdf5(extraction_types, data_path, output_path, config)
GlobalsArgs(et, dp, op, cfg) == << et, dp, op, cfg >>

\* mutant of LstArgs: the configuration is not handed over
LstArgsNoConfig(dp, op, cfg) == << dp, op, 0 >>

\* convert_lst_to_hdf5(data_path, output_path, config)
LstArgs(dp, op, cfg) == << dp, op, cfg >>

\* mutant of NextStep: the two `if` blocks in the other order
NextStepSwapped(stage) ==
    CASE stage = "parsed" -> "dispatch_lst"
      [] stage = "lst_done" -> "dispatch_globals"
      [] stage = "globals_done" -> "return"

\* The order of the statements of lines 42-48.
NextStep(stage) ==
    CASE stage = "parsed" -> "dispatch_globals"
      [] stage = "globals_done" -> "dispatch_lst"
      [] stage = "lst_done" -> "return"

\* mutant of Propagate: the exception is caught and convert carries on
SwallowAndResume(e, resume) == [pc |-> resume, error |-> NoError]

\* A converter's exception is not caught: it leaves convert.
Propagate(e, resume) == [pc |-> "failed", error |-> e]

\* ------------------------------------------------------------------ events
CallEv(f, a) == [op |-> f, kind |-> "call", args |-> a]
ReturnEv(f, n) == [op |-> f, kind |-> "return", val |-> n]
RaiseEv(f, e) == [op |-> f, kind |-> "raise", err |-> e]

\* State of a fresh call of convert.
Enter(et, dp, op, cp, fs) ==
    /\ extraction_types' = et
    /\ data_path' = dp
    /\ output_path' = op
    /\ config_arg' = cp
    /\ config_path' = cp
    /\ files' = fs
    /\ config' = 0
    /\ processed_files_num' = 0
    /\ log' = << >>
    /\ result' = 0
    /\ calls' = calls + 1

\* A caller calls convert(extraction_types, data_path, output_path, config_path).
CallConvert ==
    /\ pc = "idle"
    /\ calls < MaxCalls
    /\ \E et \in BoundedSeq(ExtractionType, MaxKinds), dp \in DataPaths,
          op \in OutputPaths, cp \in {None, UserConfig}, fs \in SUBSET Paths :
          Enter(et, dp, op, cp, fs)
    /\ pc' = "resolve_data"
    /\ entry' = "api"
    /\ cli' = [given |-> FALSE, tokens |-> << >>]
    /\ error' = NoError
    /\ UNCHANGED nextObj

\* Line 30: data_path.resolve(strict=True)
ResolveDataPath ==
    /\ pc = "resolve_data"
    /\ IF ResolveStrict(data_path, files)
       THEN pc' = "resolve_output" /\ UNCHANGED error
       ELSE /\ pc' = "failed"
            /\ error' = [type |-> "FileNotFoundError", detail |-> data_path]
    /\ UNCHANGED << entry, cli, extraction_types, data_path, output_path, config_arg,
                    config_path, files, config, processed_files_num, log, result,
                    calls, nextObj >>

\* Line 31: output_path.resolve(strict=True)
ResolveOutputPath ==
    /\ pc = "resolve_output"
    /\ IF ResolveStrict(output_path, files)
       THEN pc' = "resolve_config" /\ UNCHANGED error
       ELSE /\ pc' = "failed"
            /\ error' = [type |-> "FileNotFoundError", detail |-> output_path]
    /\ UNCHANGED << entry, cli, extraction_types, data_path, output_path, config_arg,
                    config_path, files, config, processed_files_num, log, result,
                    calls, nextObj >>

MissingDefaultMessage == "Default config file is missing. Provide a config file."

\* Lines 36-39: substitute the default configuration path, check it exists.
ResolveConfig ==
    /\ pc = "resolve_config"
    /\ config_path' = DefaultedConfigPath(config_path)
    /\ IF ConfigExists(config_path', files)
       THEN pc' = "parse_config" /\ UNCHANGED error
       ELSE /\ pc' = "failed"
            /\ error' = [type |-> "ValueError", detail |-> MissingDefaultMessage]
    /\ UNCHANGED << entry, cli, extraction_types, data_path, output_path, config_arg,
                    files, config, processed_files_num, log, result, calls, nextObj >>

\* Line 40: config = parse_config(config_path); the loader returns a new
\* Configuration object or raises.
ParseConfig ==
    /\ pc = "parse_config"
    /\ \/ /\ config' = nextObj
          /\ nextObj' = nextObj + 1
          /\ log' = log \o << CallEv("parse_config", << config_path >>),
                              ReturnEv("parse_config", nextObj) >>
          /\ pc' = NextStep("parsed")
          /\ UNCHANGED error
       \/ /\ log' = log \o << CallEv("parse_config", << config_path >>),
                              RaiseEv("parse_config",
                                      [type |-> ConfigurationInvalid,
                                       detail |-> config_path]) >>
          /\ pc' = "failed"
          /\ error' = [type |-> ConfigurationInvalid, detail |-> config_path]
          /\ UNCHANGED << config, nextObj >>
    /\ UNCHANGED << entry, cli, extraction_types, data_path, output_path, config_arg,
                    config_path, files, processed_files_num, result, calls >>

\* Lines 43-44: the test, and the call of convert_globals_to_hdf5.
DispatchGlobals ==
    /\ pc = "dispatch_globals"
    /\ IF NeedsGlobals(extraction_types)
       THEN /\ log' = Append(log, CallEv("convert_globals_to_hdf5",
                         GlobalsArgs(extraction_types, data_path, output_path, config)))
            /\ pc' = "in_globals"
       ELSE /\ pc' = NextStep("globals_done")
            /\ UNCHANGED log
    /\ UNCHANGED << entry, cli, extraction_types, data_path, output_path, config_arg,
                    config_path, files, config, processed_files_num, result, error,
                    calls, nextObj >>

\* Line 44: convert_globals_to_hdf5 returns a count, which is added.
GlobalsReturns ==
    /\ pc = "in_globals"
    /\ \E n \in 0..MaxCount :
          /\ log' = Append(log, ReturnEv("convert_globals_to_hdf5", n))
          /\ processed_files_num' = AddProcessed(processed_files_num, n)
    /\ pc' = NextStep("globals_done")
    /\ UNCHANGED << entry, cli, extraction_types, data_path, output_path, config_arg,
                    config_path, files, config, result, error, calls, nextObj >>

\* Line 44: convert_globals_to_hdf5 raises.
GlobalsRaises ==
    /\ pc = "in_globals"
    /\ \E t \in ConverterErrors :
          LET e == [type |-> t, detail |-> "convert_globals_to_hdf5"] IN
          /\ log' = Append(log, RaiseEv("convert_globals_to_hdf5", e))
          /\ pc' = Propagate(e, NextStep("globals_done")).pc
          /\ error' = Propagate(e, NextStep("globals_done")).error
    /\ UNCHANGED << entry, cli, extraction_types, data_path, output_path, config_arg,
                    config_path, files, config, processed_files_num, result, calls,
                    nextObj >>

\* Lines 45-46: the test, and the call of convert_lst_to_hdf5.
DispatchLst ==
    /\ pc = "dispatch_lst"
    /\ IF NeedsLst(extraction_types)
       THEN /\ log' = Append(log, CallEv("convert_lst_to_hdf5",
                                         LstArgs(data_path, output_path, config)))
            /\ pc' = "in_lst"
       ELSE /\ pc' = NextStep("lst_done")
            /\ UNCHANGED log
    /\ UNCHANGED << entry, cli, extraction_types, data_path, output_path, config_arg,
                    config_path, files, config, processed_files_num, result, error,
                    calls, nextObj >>

\* Line 46: convert_lst_to_hdf5 returns a count, which is added.
LstReturns ==
    /\ pc = "in_lst"
    /\ \E n \in 0..MaxCount :
          /\ log' = Append(log, ReturnEv("convert_lst_to_hdf5", n))
          /\ processed_files_num' = AddProcessed(processed_files_num, n)
    /\ pc' = NextStep("lst_done")
    /\ UNCHANGED << entry, cli, extraction_types, data_path, output_path, config_arg,
                    config_path, files, config, result, error, calls, nextObj >>

\* Line 46: convert_lst_to_hdf5 raises.
LstRaises ==
    /\ pc = "in_lst"
    /\ \E t \in ConverterErrors :
          LET e == [type |-> t, detail |-> "convert_lst_to_hdf5"] IN
          /\ log' = Append(log, RaiseEv("convert_lst_to_hdf5", e))
          /\ pc' = Propagate(e, NextStep("lst_done")).pc
          /\ error' = Propagate(e, NextStep("lst_done")).error
    /\ UNCHANGED << entry, cli, extraction_types, data_path, output_path, config_arg,
                    config_path, files, config, processed_files_num, result, calls,
                    nextObj >>

\* Line 48: return processed_files_num
Return ==
    /\ pc = "return"
    /\ result' = processed_files_num
    /\ pc' = "done"
    /\ UNCHANGED << entry, cli, extraction_types, data_path, output_path, config_arg,
                    config_path, files, config, processed_files_num, log, error,
                    calls, nextObj >>

\* ------------------------------------------------------------ command line
\* argparse, nargs="+" with choices: at least one token, each one of Choices.
ArgparseAccepts(c) ==
    ~c.given \/ (Len(c.tokens) >= 1 /\ \A i \in DOMAIN c.tokens : c.tokens[i] \in Choices)

\* args.extraction_types: the tokens given, or the default.
ArgsExtractionTypes(c) == IF c.given THEN c.tokens ELSE DefaultTokens

\* Line 97: tuple(ExtractionType[ext_type.upper()] for ext_type in ...)
AllNamesKnown(toks) == \A i \in DOMAIN toks : IsMemberName(Upper(toks[i]))
ToExtractionTypes(toks) == [i \in DOMAIN toks |-> ExtractionTypeByName(Upper(toks[i]))]

\* Lines 51-101: the command line is parsed and convert is called.
Main ==
    /\ pc = "idle"
    /\ calls < MaxCalls
    /\ entry' = "cli"
    /\ \E c \in [given : {TRUE}, tokens : BoundedSeq(CliTokens, MaxTokens)]
                \cup {[given |-> FALSE, tokens |-> << >>]},
          dp \in DataPaths, op \in OutputPaths, cp \in {None, UserConfig},
          fs \in SUBSET Paths :
          /\ cli' = c
          /\ IF ~ArgparseAccepts(c)
             THEN /\ Enter(<< >>, dp, op, cp, fs)
                  /\ pc' = "usage_error"
                  /\ error' = [type |-> "SystemExit", detail |-> "invalid choice"]
             ELSE IF ~AllNamesKnown(ArgsExtractionTypes(c))
             THEN /\ Enter(<< >>, dp, op, cp, fs)
                  /\ pc' = "main_error"
                  /\ error' = [type |-> "KeyError", detail |-> "ExtractionType"]
             ELSE /\ Enter(ToExtractionTypes(ArgsExtractionTypes(c)), dp, op, cp, fs)
                  /\ pc' = "resolve_data"
                  /\ error' = NoError
    /\ UNCHANGED nextObj

\* The call is over: its frame (parameters, locals, result or exception) is
\* discarded; nothing is kept from one call to the next.
Finish ==
    /\ pc \in Terminal
    /\ pc' = "idle"
    /\ entry' = "api"
    /\ cli' = [given |-> FALSE, tokens |-> << >>]
    /\ extraction_types' = << >>
    /\ config_arg' = None
    /\ config_path' = None
    /\ files' = {}
    /\ config' = 0
    /\ processed_files_num' = 0
    /\ log' = << >>
    /\ result' = 0
    /\ error' = NoError
    /\ UNCHANGED << data_path, output_path, calls, nextObj >>

Next ==
    \/ CallConvert
    \/ Main
    \/ ResolveDataPath
    \/ ResolveOutputPath
    \/ ResolveConfig
    \/ ParseConfig
    \/ DispatchGlobals
    \/ GlobalsReturns
    \/ GlobalsRaises
    \/ DispatchLst
    \/ LstReturns
    \/ LstRaises
    \/ Return
    \/ Finish

Spec == Init /\ [][Next]_vars

\* ------------------------------------------------- vocabulary of the claims
GLOBALS_CONVERTER == "convert_globals_to_hdf5"
LST_CONVERTER == "convert_lst_to_hdf5"
LOADER == "parse_config"

\* convert has been entered in the current call.
Entered == pc \notin {"idle", "usage_error", "main_error"}

\* convert has returned or raised.
Settled == pc \in {"done", "failed"}

\* The requested kinds as a set.
Kinds == { extraction_types[i] : i \in DOMAIN extraction_types }

CallsOf(f) == { i \in DOMAIN log : log[i].op = f /\ log[i].kind = "call" }
ReturnsOf(f) == { i \in DOMAIN log : log[i].op = f /\ log[i].kind = "return" }
RaisesOf(f) == { i \in DOMAIN log : log[i].op = f /\ log[i].kind = "raise" }
Invocations(f) == Cardinality(CallsOf(f))

\* The counts the converters returned in this call, summed.
RECURSIVE SumReturned(_)
SumReturned(l) ==
    IF l = << >> THEN 0
    ELSE (IF Head(l).kind = "return" /\ Head(l).op \in {GLOBALS_CONVERTER, LST_CONVERTER}
          THEN Head(l).val ELSE 0) + SumReturned(Tail(l))

\* The configuration path convert is to use, as the caller sees it.
RequestedConfig == IF config_arg = None THEN DefaultConfig ELSE config_arg

PathsValid == data_path \in files /\ output_path \in files

\* ------------------------------------------------------------------ C1
\* C1 as stated: in a call whose paths and configuration are valid, the
\* Globals/Standards converter is invoked once if GLOBALS or STANDARDS is
\* requested and never otherwise, the LST converter once if LST is requested and
\* never otherwise, and with none of the kinds nothing is invoked and 0 returned.
C1_DispatchWhateverHappens ==
    (Settled /\ config # 0) =>
        /\ Invocations(GLOBALS_CONVERTER) =
              (IF "GLOBALS" \in Kinds \/ "STANDARDS" \in Kinds THEN 1 ELSE 0)
        /\ Invocations(LST_CONVERTER) = (IF "LST" \in Kinds THEN 1 ELSE 0)
        /\ Kinds = {} =>
              (pc = "done" /\ result = 0 /\ Invocations(GLOBALS_CONVERTER) = 0
                 /\ Invocations(LST_CONVERTER) = 0)

\* C1 amended: as above, except that the LST converter is invoked once only if
\* LST is requested and the Globals/Standards converter did not raise; no
\* converter is ever invoked more than once in a call.
C1_Dispatch ==
    /\ Invocations(GLOBALS_CONVERTER) <= 1
    /\ Invocations(LST_CONVERTER) <= 1
    /\ (Settled /\ config # 0) =>
        /\ Invocations(GLOBALS_CONVERTER) =
              (IF "GLOBALS" \in Kinds \/ "STANDARDS" \in Kinds THEN 1 ELSE 0)
        /\ Invocations(LST_CONVERTER) =
              (IF "LST" \in Kinds /\ RaisesOf(GLOBALS_CONVERTER) = {} THEN 1 ELSE 0)
        /\ Kinds = {} =>
              (pc = "done" /\ result = 0 /\ Invocations(GLOBALS_CONVERTER) = 0
                 /\ Invocations(LST_CONVERTER) = 0)

\* A call asking for STANDARDS and LST (not GLOBALS) that returned with
\* both converters invoked once.
C1_Witness ==
    /\ pc = "done"
    /\ extraction_types = << "STANDARDS", "LST" >>
    /\ Invocations(GLOBALS_CONVERTER) = 1
    /\ Invocations(LST_CONVERTER) = 1

\* ------------------------------------------------------------------ C2
\* C2: when convert returns, the value returned is the sum of the counts
\* returned by the converters invoked in that call (0 when none was).
C2_TotalIsSum == pc = "done" => result = SumReturned(log)

\* Both converters invoked, returning 1 and 2; convert returned 3.
C2_Witness ==
    /\ pc = "done"
    /\ \E i \in ReturnsOf(GLOBALS_CONVERTER) : log[i].val = 1
    /\ \E i \in ReturnsOf(LST_CONVERTER) : log[i].val = 2
    /\ result = 3

\* ------------------------------------------------------------------ C3
\* C3: when the data path or the output path does not exist, convert gets no
\* further than the path checks, calls neither the loader nor a converter, and
\* ends with FileNotFoundError naming the first of the two paths that is
\* missing, whatever the kinds and the configuration path are.
C3_PathNotFound ==
    (Entered /\ ~PathsValid) =>
        /\ pc \in {"resolve_data", "resolve_output", "failed"}
        /\ log = << >>
        /\ config = 0
        /\ pc = "failed" =>
              /\ error.type = "FileNotFoundError"
              /\ error.detail = (IF data_path \notin files THEN data_path ELSE output_path)
              /\ error.detail \notin files

\* The output path is missing, kinds and a configuration path were given and
\* the configuration file exists: convert failed naming the output path.
C3_Witness ==
    /\ pc = "failed"
    /\ data_path \in files
    /\ output_path \notin files
    /\ extraction_types = << "GLOBALS", "LST" >>
    /\ config_arg = UserConfig
    /\ UserConfig \in files
    /\ error = [type |-> "FileNotFoundError", detail |-> output_path]

\* ------------------------------------------------------------------ C4
\* C4: with both paths existing, no configuration path supplied and no file
\* at the default location, convert gets no further than the configuration
\* check, never calls the loader or a converter, holds no configuration, and
\* ends with the missing-default-configuration ValueError.
C4_MissingDefault ==
    (Entered /\ PathsValid /\ config_arg = None /\ DefaultConfig \notin files) =>
        /\ pc \in {"resolve_data", "resolve_output", "resolve_config", "failed"}
        /\ log = << >>
        /\ config = 0
        /\ pc = "failed" =>
              error = [type |-> "ValueError", detail |-> MissingDefaultMessage]

\* Such a call, failed; another configuration file exists but was not supplied.
C4_Witness ==
    /\ pc = "failed"
    /\ PathsValid
    /\ config_arg = None
    /\ DefaultConfig \notin files
    /\ UserConfig \in files
    /\ extraction_types = << "LST" >>
    /\ error.type = "ValueError"

\* ------------------------------------------------------------------ C5
\* C5: the loader is called only after both paths and the configuration file
\* were found; once convert is past line 40 the loader has been called exactly
\* once, on the requested configuration path, as the first collaborator call,
\* whatever the number of converters invoked; and every converter invoked
\* receives the one object the loader returned.
C5_LoadOnce ==
    /\ Invocations(LOADER) <= 1
    /\ log # << >> =>
          /\ PathsValid /\ RequestedConfig \in files
          /\ log[1] = [op |-> LOADER, kind |-> "call", args |-> << RequestedConfig >>]
          /\ Len(log) >= 2 /\ log[2].op = LOADER /\ log[2].kind \in {"return", "raise"}
    /\ (Entered /\ PathsValid /\ RequestedConfig \in files
          /\ pc \notin {"resolve_data", "resolve_output", "resolve_config", "parse_config"})
          => Invocations(LOADER) = 1
    /\ \A i \in CallsOf(GLOBALS_CONVERTER) \cup CallsOf(LST_CONVERTER) :
          /\ log[2].kind = "return"
          /\ log[i].args[Len(log[i].args)] = log[2].val
          /\ log[2].val = config
          /\ config # 0

\* A call in which both converters were invoked after one load.
C5_Witness ==
    /\ pc = "done"
    /\ Invocations(LOADER) = 1
    /\ Invocations(GLOBALS_CONVERTER) = 1
    /\ Invocations(LST_CONVERTER) = 1
    /\ config_arg = None

\* ------------------------------------------------------------------ C6
\* C6: an exception raised by a converter is the last thing that happens in
\* the call: convert has failed with that very exception, nothing was
\* returned, and after a raise of the Globals/Standards converter the LST
\* converter was never invoked.
C6_ErrorsPropagate ==
    /\ \A i \in RaisesOf(GLOBALS_CONVERTER) :
          /\ i = Len(log)
          /\ pc = "failed"
          /\ error = log[i].err
          /\ result = 0
          /\ Invocations(LST_CONVERTER) = 0
    /\ \A i \in RaisesOf(LST_CONVERTER) :
          /\ i = Len(log)
          /\ pc = "failed"
          /\ error = log[i].err
          /\ result = 0

\* The Globals/Standards converter raised in a call that also asked for LST.
C6_Witness ==
    /\ pc = "failed"
    /\ "LST" \in Kinds
    /\ RaisesOf(GLOBALS_CONVERTER) # {}
    /\ error = [type |-> "OSError", detail |-> GLOBALS_CONVERTER]

\* ------------------------------------------------------------------ C7
\* C7: whenever the LST converter has been invoked in a call in which the
\* Globals/Standards converter is invoked too, the Globals/Standards converter
\* was invoked and had returned before; a converter's call is directly followed
\* by its own return or raise, so the two never overlap.
C7_GlobalsBeforeLst ==
    /\ \A j \in CallsOf(LST_CONVERTER) :
          /\ \A i \in CallsOf(GLOBALS_CONVERTER) :
                i < j /\ \E k \in ReturnsOf(GLOBALS_CONVERTER) : i < k /\ k < j
          /\ ("GLOBALS" \in Kinds \/ "STANDARDS" \in Kinds) =>
                \E i \in CallsOf(GLOBALS_CONVERTER) : i < j
    /\ \A i \in CallsOf(GLOBALS_CONVERTER) \cup CallsOf(LST_CONVERTER) :
          i < Len(log) =>
             (log[i + 1].op = log[i].op /\ log[i + 1].kind \in {"return", "raise"})

\* Both converters invoked and returned.
C7_Witness ==
    /\ pc = "done"
    /\ ReturnsOf(GLOBALS_CONVERTER) # {}
    /\ ReturnsOf(LST_CONVERTER) # {}

\* ------------------------------------------------------------------ C8
\* C8: the Globals/Standards converter is called with the caller's whole
\* extraction_types tuple, the data path, the output path and the
\* configuration; the LST converter with the data path, the output path and
\* the configuration, and nothing else.
C8_Arguments ==
    /\ \A i \in CallsOf(GLOBALS_CONVERTER) :
          /\ Len(log[i].args) = 4
          /\ log[i].args[1] = extraction_types
          /\ log[i].args[2] = data_path
          /\ log[i].args[3] = output_path
          /\ log[i].args[4] = config
    /\ \A i \in CallsOf(LST_CONVERTER) :
          /\ Len(log[i].args) = 3
          /\ log[i].args[1] = data_path
          /\ log[i].args[2] = output_path
          /\ log[i].args[3] = config

\* The Globals/Standards converter was handed a tuple that contains LST.
C8_Witness ==
    /\ pc = "done"
    /\ \E i \in CallsOf(GLOBALS_CONVERTER) : log[i].args[1] = << "LST", "GLOBALS" >>
    /\ CallsOf(LST_CONVERTER) # {}

\* ------------------------------------------------------------------ C9
\* str.lower() on one character, to state equality up to letter case.
LowerChar(c) ==
    IF \E i \in DOMAIN UpperLetters : UpperLetters[i] = c
    THEN LowerLetters[CHOOSE i \in DOMAIN UpperLetters : UpperLetters[i] = c]
    ELSE c

Lower(s) == [i \in DOMAIN s |-> LowerChar(s[i])]

\* The ExtractionType a lower-case token stands for.
KindOfToken(t) ==
    CASE t = tok_lst -> "LST"
      [] t = tok_globals -> "GLOBALS"
      [] t = tok_standards -> "STANDARDS"

\* The command line was run in the current call.
FromCli == entry = "cli" /\ pc # "idle"

\* C9 as stated: a command line whose tokens all equal lst, globals or
\* standards up to letter case is accepted and convert receives the
\* corresponding kinds; without the flag convert receives all three kinds.
C9_CaseInsensitive ==
    /\ (FromCli /\ cli.given /\ Len(cli.tokens) >= 1
          /\ \A i \in DOMAIN cli.tokens : Lower(cli.tokens[i]) \in Choices)
          => /\ Entered
             /\ extraction_types =
                   [i \in DOMAIN cli.tokens |-> KindOfToken(Lower(cli.tokens[i]))]
    /\ (FromCli /\ ~cli.given) => (Entered /\ Kinds = {"LST", "GLOBALS", "STANDARDS"})

\* C9 amended: a command line whose tokens are each exactly lst, globals or
\* standards (lower case) is accepted and convert receives the corresponding
\* kinds; without the flag convert receives all three kinds.
C9_ExactTokens ==
    /\ (FromCli /\ cli.given /\ Len(cli.tokens) >= 1
          /\ \A i \in DOMAIN cli.tokens : cli.tokens[i] \in {tok_lst, tok_globals, tok_standards})
          => /\ Entered
             /\ extraction_types = [i \in DOMAIN cli.tokens |-> KindOfToken(cli.tokens[i])]
    /\ (FromCli /\ ~cli.given) => (Entered /\ Kinds = {"LST", "GLOBALS", "STANDARDS"})

\* "-e standards lst" was accepted and convert ran with (STANDARDS, LST).
C9_Witness ==
    /\ FromCli
    /\ cli = [given |-> TRUE, tokens |-> << tok_standards, tok_lst >>]
    /\ extraction_types = << "STANDARDS", "LST" >>
    /\ pc = "done"

\* ------------------------------------------------------------------ C10
\* C10 as stated: convert fails with the missing-default-configuration error
\* only when no configuration path was supplied; and when the loader rejects
\* the file, convert has failed with the loader's error and no converter was
\* invoked.
C10_MissingDefaultOnlyWithoutPath ==
    /\ (pc = "failed" /\ error.type = "ValueError" /\ error.detail = MissingDefaultMessage)
          => config_arg = None
    /\ \A i \in RaisesOf(LOADER) :
          /\ pc = "failed"
          /\ error = log[i].err
          /\ error.type = ConfigurationInvalid
          /\ Invocations(GLOBALS_CONVERTER) = 0
          /\ Invocations(LST_CONVERTER) = 0


====
